---- MODULE Spec2Model ----
(***************************************************************************)
(* H5P host components (Editor, Player): document synthesis, object-URL    *)
(* publishing, inbound message routing, the editor guest's token relay and *)
(* the Player's height/ready layout controller.                            *)
(*                                                                         *)
(* Text is modelled as a sequence of one-character strings, so that        *)
(* includes(), split() and concatenation are computed, not assumed.        *)
(* Atomic strings are used only where the code never looks inside a value  *)
(* (nonce, token, library, callback and origin names).                     *)
(***************************************************************************)
EXTENDS Integers, Sequences, FiniteSets, TLC

\* ------------------------------------------------------------------ values

\* JavaScript null / undefined, and the text a template literal gives for it.
Null == "<null>"
Undefined == "<undefined>"

\* JavaScript truthiness of a string-or-null value.
Truthy(v) == v # Null /\ v # Undefined /\ v # ""

\* `${v}` inside a template literal.
TemplateText(v) == IF v = Null THEN "null" ELSE IF v = Undefined THEN "undefined" ELSE v

\* ------------------------------------------------------------------- text

\* s.includes(pat) on character sequences.
Includes(s, pat) ==
    \E i \in 1..(Len(s) - Len(pat) + 1) : SubSeq(s, i, i + Len(pat) - 1) = pat

srcIsAbsolute(src) == Includes(src, <<":", "/", "/">>)

\* s.split(sep) for a one-character separator.
RECURSIVE Split(_, _)
Split(s, sep) ==
    IF \A i \in 1..Len(s) : s[i] # sep
    THEN <<s>>
    ELSE LET k == CHOOSE i \in 1..Len(s) :
                      s[i] = sep /\ \A j \in 1..(i - 1) : s[j] # sep
         IN  <<SubSeq(s, 1, k - 1)>> \o Split(SubSeq(s, k + 1, Len(s)), sep)

DigitChars == <<"0", "1", "2", "3", "4", "5", "6", "7", "8", "9">>
IsDigit(c) == \E i \in 1..Len(DigitChars) : DigitChars[i] = c
DigitValue(c) == (CHOOSE i \in 1..Len(DigitChars) : DigitChars[i] = c) - 1

RECURSIVE DecimalValue(_)
DecimalValue(s) ==
    IF Len(s) = 0 THEN 0
    ELSE 10 * DecimalValue(SubSeq(s, 1, Len(s) - 1)) + DigitValue(s[Len(s)])

\* Number(text) followed by the isNaN test of contentId: a text of decimal
\* digits is its value, the empty text is 0, anything else is NaN, which
\* contentId replaces by 0.
NumberOrZero(s) ==
    IF \A i \in 1..Len(s) : IsDigit(s[i]) THEN DecimalValue(s) ELSE 0

\* JSON.parse succeeds on the text: a recogniser for the JSON fragment made
\* of the digits, "[", "]", ",", "{" and "}" (numbers, arrays, the empty
\* object).  ParseValue gives the index after the value read at i, 0 when no
\* value can be read there.
RECURSIVE ParseValue(_, _)
RECURSIVE ParseElements(_, _)
RECURSIVE SkipDigits(_, _)
SkipDigits(s, i) == IF i <= Len(s) /\ IsDigit(s[i]) THEN SkipDigits(s, i + 1) ELSE i

ParseElements(s, i) ==
    LET j == ParseValue(s, i)
    IN  IF j = 0 \/ j > Len(s) THEN 0
        ELSE IF s[j] = "]" THEN j + 1
        ELSE IF s[j] = "," THEN ParseElements(s, j + 1)
        ELSE 0

ParseValue(s, i) ==
    IF i > Len(s) THEN 0
    ELSE IF IsDigit(s[i])
         THEN IF s[i] = "0" /\ i < Len(s) /\ IsDigit(s[i + 1]) THEN 0
              ELSE SkipDigits(s, i)
    ELSE IF s[i] = "{"
         THEN IF i < Len(s) /\ s[i + 1] = "}" THEN i + 2 ELSE 0
    ELSE IF s[i] = "["
         THEN IF i < Len(s) /\ s[i + 1] = "]" THEN i + 2 ELSE ParseElements(s, i + 1)
    ELSE 0

JSONParses(s) == ParseValue(s, 1) = Len(s) + 1

\* --------------------------------------------------------------- settings

\* Asset URLs and base URLs the settings are drawn from.
RelA == <<"a">>
RelB == <<"b">>
NearAbs == <<"a", ":", "/">>
AbsX == <<"h", ":", "/", "/", "x">>
AbsBase == <<"h", ":", "/", "/", "c">>
RelBase == <<"/", "c">>

\* Content keys ("cid-1" style) and jsonContent texts.
Key1 == <<"c", "-", "1">>
Key2 == <<"c", "-", "2">>
KeyPlain == <<"c">>
JsonObj == <<"{", "}">>
JsonArr == <<"[", "1", "]">>
JsonCut == <<"[", "1">>
JsonEmpty == <<>>

MapSeq(f(_), s) == [i \in 1..Len(s) |-> f(s[i])]

\* contents is the mapping in its iteration order (Object.keys order), a
\* sequence of [key, entry]; the empty sequence stands for an absent mapping.
HasContents(settings) == Len(settings.contents) > 0

\* A mutation of FirstContent: the entry of the last key is consumed.
LastContent(settings) == settings.contents[Len(settings.contents)].entry

\* state.contents[Object.keys(state.contents)[0]]
FirstContent(settings) == settings.contents[1].entry

\* ----------------------------------------------------- Editor synthesis

NoDoc == [none |-> TRUE]

\* params of Editor.src: the consumed entry's jsonContent, "" without one.
EditorParams(settings) ==
    IF HasContents(settings) THEN FirstContent(settings).jsonContent ELSE <<>>

\* The try/catch of Editor.src: JSON.parse runs only on a truthy (non-empty)
\* params, and a throw reports to onError and returns null.
EditorParseFails(settings) ==
    LET params == EditorParams(settings)
    IN  Len(params) > 0 /\ ~JSONParses(params)

\* The document Editor.src renders when the parse does not throw.
EditorDoc(settings, lang) ==
    [scripts |-> settings.core.scripts,
     styles  |-> settings.core.styles,
     payload |-> settings,
     params  |-> EditorParams(settings),
     library |-> IF HasContents(settings) THEN FirstContent(settings).library ELSE "",
     token   |-> TemplateText(settings.token),
     nonce   |-> settings.nonce,
     lang    |-> lang]

\* ----------------------------------------------------- Player synthesis

\* Player.contentId: Number(firstKey.split("-")[1]), NaN replaced by 0.
PlayerContentId(settings) ==
    IF HasContents(settings)
    THEN LET parts == Split(settings.contents[1].key, "-")
         IN  IF Len(parts) >= 2 THEN NumberOrZero(parts[2]) ELSE 0
    ELSE 0

\* The callback of settings.core.scripts.map: the template literal is
\* `${settings.baseUrl}/${src};` and ends with a ";".
PlayerScriptUrl(settings, src) ==
    IF srcIsAbsolute(src) THEN src
    ELSE IF srcIsAbsolute(settings.baseUrl)
         THEN settings.baseUrl \o <<"/">> \o src \o <<";">>
    ELSE src

\* Player.src assigns settings.core.styles and settings.core.scripts: the
\* settings object after one synthesis.
PlayerSettingsAfter(settings, styles) ==
    [settings EXCEPT
        !.core = [scripts |-> [i \in 1..Len(settings.core.scripts) |->
                                  PlayerScriptUrl(settings, settings.core.scripts[i])],
                  styles  |-> settings.core.styles \o styles]]

srcPrefix(settings) ==
    IF srcIsAbsolute(settings.baseUrl) THEN settings.baseUrl \o <<"/">> ELSE <<>>

PlayerAssetUrl(settings, url) ==
    IF srcIsAbsolute(url) THEN url ELSE srcPrefix(settings) \o url

\* The document Player.src renders from the settings object it was given.
PlayerDoc(settings, styles) ==
    LET after   == PlayerSettingsAfter(settings, styles)
        content == IF HasContents(after) THEN FirstContent(after)
                   ELSE [scripts |-> <<>>, styles |-> <<>>]
        js      == after.core.scripts \o after.loadedJs \o content.scripts
        css     == after.core.styles \o after.loadedCss \o content.styles
    IN  [scripts   |-> [i \in 1..Len(js) |-> PlayerAssetUrl(after, js[i])],
         styles    |-> [i \in 1..Len(css) |-> PlayerAssetUrl(after, css[i])],
         payload   |-> after,
         embedType |-> IF Len(after.loadedJs) > 0 THEN "div" ELSE "iframe",
         contentId |-> PlayerContentId(settings)]

\* ------------------------------------------------------ synthesis inputs

MaxEntries == 2
MaxSynth == 2

EntryFoo == [jsonContent |-> JsonObj, library |-> "Foo 1.0",
             scripts |-> <<RelA>>, styles |-> <<>>]
EntryBar == [jsonContent |-> JsonArr, library |-> "Bar 2.0",
             scripts |-> <<AbsX>>, styles |-> <<RelB>>]
EntryCut == [jsonContent |-> JsonCut, library |-> "Foo 1.0",
             scripts |-> <<>>, styles |-> <<>>]
EntryNew == [jsonContent |-> JsonEmpty, library |-> "Foo 1.0",
             scripts |-> <<>>, styles |-> <<>>]

ContentKeys == {Key1, Key2, KeyPlain}
ContentEntries == {EntryFoo, EntryBar, EntryCut}

\* Mappings of at most MaxEntries entries, keys distinct.
ContentLists ==
    UNION {{c \in [1..n -> [key : ContentKeys, entry : ContentEntries]] :
               \A i, j \in 1..n : i # j => c[i].key # c[j].key} : n \in 0..MaxEntries}

ScriptLists == {<<>>, <<RelA>>, <<RelA, AbsX>>, <<NearAbs>>}
StyleLists == {<<>>, <<RelB>>}
BaseUrls == {AbsBase, RelBase}

MkSettings(scripts, styles, baseUrl, contents, token, nonce, loadedJs) ==
    [core |-> [scripts |-> scripts, styles |-> styles], baseUrl |-> baseUrl,
     contents |-> contents, token |-> token, nonce |-> nonce,
     loadedJs |-> loadedJs, loadedCss |-> <<>>]

SynthSettings ==
    {MkSettings(sc, st, b, c, "tok1", "n1", <<>>) :
        sc \in ScriptLists, st \in StyleLists, b \in BaseUrls, c \in ContentLists}

\* ------------------------------------------------------------------ state

VARIABLES
    synWho,       \* which component synthesises: "editor" or "player"
    synOrig,      \* the settings object as the host built it
    synSettings,  \* the settings object now (Player.src assigns its fields)
    synStyles,    \* the Player's styles prop
    synDocs       \* the outcome of each synthesis, in order

synVars == <<synWho, synOrig, synSettings, synStyles, synDocs>>

VARIABLES
    now,          \* the clock, in ms since the Player was mounted
    plMounted,    \* the Player instance is mounted
    plState,      \* the state prop: which settings object the host passes
    plOnXAPI,     \* the onXAPI prop: a callback, or Null when not supplied
    plHeap,       \* the settings objects of the host, by identity
    plListeners,  \* the onMessage closures registered on the window
    height,       \* useState(DEFAULT_HEIGHT)
    isReady,      \* useState(false)
    thr,          \* the throttled changeHeight: lodash's debounce state
    grace,        \* the deadline of the pending 1000 ms timer, None without one
    plSrc,        \* the object URL of useMemo src
    plBlobs,      \* object URLs created and not revoked
    plCalls,      \* the host callbacks invoked by the last handled event
    plBurst,      \* history: the current burst of accepted height messages
    plApplied,    \* history: the last setHeight call and the burst it closed
    plReady,      \* history: how and when isReady changed
    plLast        \* history: what the last handled event was

plVars == <<now, plMounted, plState, plOnXAPI, plHeap, plListeners, height, isReady,
            thr, grace, plSrc, plBlobs, plCalls, plBurst, plApplied, plReady, plLast>>

VARIABLES
    edMounted,    \* the Editor instance is mounted
    edProps,      \* the props the host passes now
    edListeners,  \* the onMessage closures registered on the window
    edHeight,     \* useState(100)
    edSrc,        \* the object URL of useMemo src; 0 for null
    edBlobs,      \* object URLs created and not revoked
    edCalls,      \* the host callbacks invoked by the last handled event
    edLast        \* history: what the last handled event was

edVars == <<edMounted, edProps, edListeners, edHeight, edSrc, edBlobs, edCalls, edLast>>

VARIABLES
    guDoc,        \* the editor document the guest was loaded from
    guToken,      \* the guest script's `let token`
    guPushed,     \* history: the token of the last TOKEN_CHANGED received
    guUrls        \* history: every URL getAjaxUrl returned, in order

guVars == <<guDoc, guToken, guPushed, guUrls>>

vars == <<synVars, plVars, edVars, guVars>>

otherThanSynth == <<plVars, edVars, guVars>>
otherThanPlayer == <<synVars, edVars, guVars>>
otherThanEditor == <<synVars, plVars, guVars>>
otherThanGuest == <<synVars, plVars, edVars>>

\* -------------------------------------------------- synthesis, step by step

SynInit ==
    /\ synWho \in {"editor", "player"}
    /\ synOrig \in SynthSettings
    /\ synSettings = synOrig
    /\ synStyles \in StyleLists
    /\ synDocs = <<>>

\* One run of Editor.src on the settings object.
SynthEditor ==
    /\ synWho = "editor"
    /\ Len(synDocs) < MaxSynth
    /\ synDocs' = Append(synDocs,
            IF EditorParseFails(synSettings) THEN NoDoc ELSE EditorDoc(synSettings, "vi"))
    /\ UNCHANGED <<synWho, synOrig, synSettings, synStyles>>
    /\ UNCHANGED otherThanSynth

\* One run of Player.src on the settings object.
SynthPlayer ==
    /\ synWho = "player"
    /\ Len(synDocs) < MaxSynth
    /\ synDocs' = Append(synDocs, PlayerDoc(synSettings, synStyles))
    /\ synSettings' = PlayerSettingsAfter(synSettings, synStyles)
    /\ UNCHANGED <<synWho, synOrig, synStyles>>
    /\ UNCHANGED otherThanSynth


\* ----------------------------------------------------------------- Player

\* One invocation of a host callback: the callback, its arguments, the origin
\* of the message that caused it and whether the host relaxes the origin check.
Call(cb, args, origin, relaxed) ==
    [cb |-> cb, args |-> args, origin |-> origin, relaxed |-> relaxed]

None == 0 - 1

DEFAULT_HEIGHT == 1
ThrottleWait == 200
GraceMs == 1000

\* The clock advances in steps of a quarter of the throttle window; a due
\* timer callback may run up to MaxLateTicks steps late.
TickMs == ThrottleWait \div 4
CoarseMs == ThrottleWait
MaxFineTicks == 12
MaxCoarseTicks == 6
MaxLateTicks == 1
MaxBlobs == 2

HostOrigin == "https://host"
Origins == {HostOrigin, "https://other"}

\* event.data of an inbound message: statement is Undefined when the field
\* is absent, iFrameHeight is 0 when the field is absent (or 0: both falsy).
PlayerMessages == [statement : {Undefined, "stmt"}, iFrameHeight : 0..3]

PlSettings1 ==
    MkSettings(<<RelA>>, <<>>, AbsBase, <<[key |-> Key1, entry |-> EntryFoo]>>,
               "tok1", "n1", <<>>)
PlSettings2 ==
    MkSettings(<<AbsX>>, <<RelB>>, RelBase, <<[key |-> Key2, entry |-> EntryBar]>>,
               "tok2", "n2", <<>>)
PlObjects == {1, 2}
PlStyles == <<RelB>>
PlCallbacks == {Null, "onXAPI_a"}

\* lodash throttle(func, 200, {leading: false}) is debounce(func, 200,
\* {leading: false, trailing: true, maxWait: 200}); this is its state.
ThrottleInit ==
    [lastArgs |-> None, lastCallTime |-> None, lastInvokeTime |-> 0, timerId |-> None]

shouldInvoke(t, time) ==
    \/ t.lastCallTime = None
    \/ time - t.lastCallTime >= ThrottleWait
    \/ time - t.lastCallTime < 0
    \/ time - t.lastInvokeTime >= ThrottleWait

Min(a, b) == IF a <= b THEN a ELSE b

remainingWait(t, time) ==
    Min(ThrottleWait - (time - t.lastCallTime), ThrottleWait - (time - t.lastInvokeTime))

\* A mutation of ThrottleCall: {leading: true}, the arming call invokes.
ThrottleCallLeading(t, time, arg) ==
    IF t.timerId = None
    THEN [thr |-> [lastArgs |-> None, lastCallTime |-> time, lastInvokeTime |-> time,
                   timerId |-> time + ThrottleWait],
          invoked |-> arg]
    ELSE [thr |-> [t EXCEPT !.lastArgs = arg, !.lastCallTime = time], invoked |-> None]

\* changeHeight(arg) at `time`: the debounced function.  invoked is the
\* argument func (setHeight) is called with in this call, None if it is not.
ThrottleCall(t, time, arg) ==
    IF shouldInvoke(t, time)
    THEN IF t.timerId = None
         THEN \* leadingEdge, leading = false
              [thr |-> [lastArgs |-> arg, lastCallTime |-> time,
                        lastInvokeTime |-> time, timerId |-> time + ThrottleWait],
               invoked |-> None]
         ELSE \* maxing: the timer is restarted and func invoked at once
              [thr |-> [lastArgs |-> None, lastCallTime |-> time,
                        lastInvokeTime |-> time, timerId |-> time + ThrottleWait],
               invoked |-> arg]
    ELSE [thr |-> [t EXCEPT !.lastArgs = arg, !.lastCallTime = time,
                            !.timerId = IF @ = None THEN time + ThrottleWait ELSE @],
          invoked |-> None]

\* timerExpired at `time`: trailingEdge, or the timer restarted.
ThrottleTimerExpired(t, time) ==
    IF shouldInvoke(t, time)
    THEN IF t.lastArgs # None
         THEN [thr |-> [t EXCEPT !.timerId = None, !.lastArgs = None,
                                 !.lastInvokeTime = time],
               invoked |-> t.lastArgs]
         ELSE [thr |-> [t EXCEPT !.timerId = None, !.lastArgs = None],
               invoked |-> None]
    ELSE [thr |-> [t EXCEPT !.timerId = time + remainingWait(t, time)],
          invoked |-> None]

NoBurst == [open |-> FALSE, start |-> None, first |-> None, last |-> None,
            many |-> FALSE, quiet |-> FALSE, late |-> FALSE, updates |-> 0]
NoApplied == [at |-> None, value |-> None, via |-> "none"]
NoReady == [flips |-> 0, cause |-> "none", heightSeen |-> FALSE, graceRan |-> FALSE,
            byGuest |-> FALSE]
NoEvent == [kind |-> "none"]

\* The state after the first render and its effects: src synthesized from
\* object 1 and published, the listener added, the grace timer started.
PlInit ==
    /\ now = 0
    /\ plMounted = TRUE
    /\ plState = 1
    /\ plOnXAPI \in PlCallbacks
    /\ plHeap = [o \in PlObjects |->
                    IF o = 1 THEN PlayerSettingsAfter(PlSettings1, PlStyles)
                    ELSE PlSettings2]
    /\ plListeners = {[onXAPI |-> plOnXAPI, state |-> 1]}
    /\ height = DEFAULT_HEIGHT
    /\ isReady = FALSE
    /\ thr = ThrottleInit
    /\ grace = GraceMs
    /\ plSrc = 1
    /\ plBlobs = {1}
    /\ plCalls = <<>>
    /\ plBurst = NoBurst
    /\ plApplied = NoApplied
    /\ plReady = NoReady
    /\ plLast = NoEvent

\* The height branch of Player.onMessage accepts the value.
PlayerAccepts(data) == data.iFrameHeight # 0 /\ data.iFrameHeight > DEFAULT_HEIGHT

\* History of the burst after an accepted height h handled at `now`, when
\* the call invoked setHeight (inv # None) or not.  A burst starts with the
\* call that arms the throttle's timer and ends when the timer's callback
\* has run; its window is [start, start + ThrottleWait).  first and last are
\* the values of the first and the last message handled inside the window,
\* many says there were two or more; quiet says the burst started no less
\* than ThrottleWait after the previous setHeight (or before any); late says
\* a height message was handled after the window's end and before the
\* timer's callback; updates counts the setHeight calls since the start.
BurstAfterCall(h, inv) ==
    IF thr.timerId = None
    THEN [open |-> TRUE, start |-> now, first |-> h, last |-> h, many |-> FALSE,
          quiet |-> (plApplied.at = None \/ now - plApplied.at >= ThrottleWait),
          late |-> FALSE, updates |-> IF inv # None THEN 1 ELSE 0]
    ELSE [plBurst EXCEPT
             !.last = IF now < plBurst.start + ThrottleWait THEN h ELSE @,
             !.many = @ \/ now < plBurst.start + ThrottleWait,
             !.late = @ \/ now >= plBurst.start + ThrottleWait,
             !.updates = IF inv # None THEN @ + 1 ELSE @]

ReadyAfter(cause) ==
    IF isReady THEN plReady
    ELSE [plReady EXCEPT !.flips = @ + 1, !.cause = cause]

\* A mutation of GuestRendered: the iframe is rendered whenever mounted.
GuestRenderedAlways == plMounted

\* The iframe element of the Player's render exists.
GuestRendered == plMounted /\ isReady

\* The registered onMessage closure handles a message event; fromGuest says
\* that the Player's own guest posted it.
PlayerHandles(origin, data, fromGuest) ==
    /\ plListeners # {}
    /\ \E l \in plListeners :
          LET accepted == PlayerAccepts(data)
              r == IF accepted THEN ThrottleCall(thr, now, data.iFrameHeight)
                   ELSE [thr |-> thr, invoked |-> None]
          IN  /\ plCalls' = IF data.statement # Undefined /\ l.onXAPI # Null
                            THEN <<Call(l.onXAPI, <<data>>, origin, FALSE)>>
                            ELSE <<>>
              /\ thr' = r.thr
              /\ height' = IF r.invoked # None THEN r.invoked ELSE height
              /\ isReady' = (isReady \/ accepted)
              /\ plBurst' = IF accepted THEN BurstAfterCall(data.iFrameHeight, r.invoked)
                            ELSE plBurst
              /\ plApplied' = IF r.invoked # None
                              THEN [at |-> now, value |-> r.invoked, via |-> "call"]
                              ELSE plApplied
              /\ plReady' = [(IF accepted
                              THEN [ReadyAfter("height") EXCEPT !.heightSeen = TRUE]
                              ELSE plReady)
                                EXCEPT !.byGuest = @ \/ (fromGuest /\ ~isReady)]
              /\ plLast' = [kind |-> "message", data |-> data, fromGuest |-> fromGuest]
    /\ UNCHANGED <<now, plMounted, plState, plOnXAPI, plHeap, plListeners, grace,
                   plSrc, plBlobs>>
    /\ UNCHANGED otherThanPlayer

\* A window message event from another window than the Player's guest.
PlayerOnMessage(origin, data) == PlayerHandles(origin, data, FALSE)

\* The Player's guest posts a message to its parent: the document of a blob
\* URL has the origin of the page that created it.
PlayerGuestPosts(data) ==
    /\ GuestRendered
    /\ PlayerHandles(HostOrigin, data, TRUE)

\* The callback of the throttle's timer.  setHeight on an unmounted
\* component changes no state.
ThrottleTimerFires ==
    /\ thr.timerId # None
    /\ now >= thr.timerId
    /\ LET r == ThrottleTimerExpired(thr, now)
       IN  /\ thr' = r.thr
           /\ height' = IF r.invoked # None /\ plMounted THEN r.invoked ELSE height
           /\ plApplied' = IF r.invoked # None /\ plMounted
                           THEN [at |-> now, value |-> r.invoked, via |-> "timer"]
                           ELSE plApplied
           /\ plBurst' = IF r.thr.timerId = None
                         THEN [plBurst EXCEPT
                                  !.open = FALSE,
                                  !.updates = IF r.invoked # None /\ plMounted
                                              THEN @ + 1 ELSE @]
                         ELSE plBurst
    /\ plCalls' = <<>>
    /\ plLast' = NoEvent
    /\ UNCHANGED <<now, plMounted, plState, plOnXAPI, plHeap, plListeners, isReady,
                   grace, plSrc, plBlobs, plReady>>
    /\ UNCHANGED otherThanPlayer

\* A mutation of GraceTimerFires: the callback leaves the flag alone.
GraceTimerIdle ==
    /\ grace # None
    /\ now >= grace
    /\ isReady' = isReady
    /\ grace' = None
    /\ plReady' = [plReady EXCEPT !.graceRan = TRUE]
    /\ plCalls' = <<>>
    /\ plLast' = NoEvent
    /\ UNCHANGED <<now, plMounted, plState, plOnXAPI, plHeap, plListeners, height, thr,
                   plSrc, plBlobs, plBurst, plApplied>>
    /\ UNCHANGED otherThanPlayer

\* A mutation of GraceTimerFires: the callback toggles the flag.
GraceTimerToggles ==
    /\ grace # None
    /\ now >= grace
    /\ isReady' = ~isReady
    /\ grace' = None
    /\ plReady' = [ReadyAfter("timer") EXCEPT !.graceRan = TRUE]
    /\ plCalls' = <<>>
    /\ plLast' = NoEvent
    /\ UNCHANGED <<now, plMounted, plState, plOnXAPI, plHeap, plListeners, height, thr,
                   plSrc, plBlobs, plBurst, plApplied>>
    /\ UNCHANGED otherThanPlayer

\* The callback of setTimeout(..., 1000): setIsReady(true).
GraceTimerFires ==
    /\ grace # None
    /\ now >= grace
    /\ isReady' = TRUE
    /\ grace' = None
    /\ plReady' = [ReadyAfter("timer") EXCEPT !.graceRan = TRUE]
    /\ plCalls' = <<>>
    /\ plLast' = NoEvent
    /\ UNCHANGED <<now, plMounted, plState, plOnXAPI, plHeap, plListeners, height, thr,
                   plSrc, plBlobs, plBurst, plApplied>>
    /\ UNCHANGED otherThanPlayer

\* No due timer callback is more than MaxLateTicks steps of `step` late.
TimersAllow(step) ==
    /\ thr.timerId # None => now < thr.timerId + MaxLateTicks * step
    /\ grace # None => now < grace + MaxLateTicks * step

\* Time passes, in steps of a quarter of the throttle window.
TickFine ==
    /\ now < MaxFineTicks * TickMs
    /\ TimersAllow(TickMs)
    /\ now' = now + TickMs
    /\ UNCHANGED <<plMounted, plState, plOnXAPI, plHeap, plListeners, height, isReady,
                   thr, grace, plSrc, plBlobs, plCalls, plBurst, plApplied, plReady>>
    /\ plLast' = NoEvent
    /\ UNCHANGED otherThanPlayer

\* Time passes, in steps of one throttle window.
TickCoarse ==
    /\ now < MaxCoarseTicks * CoarseMs
    /\ TimersAllow(CoarseMs)
    /\ now' = now + CoarseMs
    /\ UNCHANGED <<plMounted, plState, plOnXAPI, plHeap, plListeners, height, isReady,
                   thr, grace, plSrc, plBlobs, plCalls, plBurst, plApplied, plReady>>
    /\ plLast' = NoEvent
    /\ UNCHANGED otherThanPlayer

\* The host passes another settings object: src is synthesized again (the
\* object's core.scripts and core.styles are assigned, an object URL is
\* created), and the listener effect re-runs with the new onMessage.
PlayerChangeState(o) ==
    /\ plMounted
    /\ o # plState
    /\ Cardinality(plBlobs) < MaxBlobs
    /\ plState' = o
    /\ plHeap' = [plHeap EXCEPT ![o] = PlayerSettingsAfter(@, PlStyles)]
    /\ plSrc' = Cardinality(plBlobs) + 1
    /\ plBlobs' = plBlobs \cup {Cardinality(plBlobs) + 1}
    /\ plListeners' = {[onXAPI |-> plOnXAPI, state |-> o]}
    /\ plCalls' = <<>>
    /\ plLast' = NoEvent
    /\ UNCHANGED <<now, plMounted, plOnXAPI, height, isReady, thr, grace, plBurst,
                   plApplied, plReady>>
    /\ UNCHANGED otherThanPlayer

\* The host passes another onXAPI: the listener effect re-runs.
PlayerChangeOnXAPI(cb) ==
    /\ plMounted
    /\ cb # plOnXAPI
    /\ plOnXAPI' = cb
    /\ plListeners' = {[onXAPI |-> cb, state |-> plState]}
    /\ plCalls' = <<>>
    /\ plLast' = NoEvent
    /\ UNCHANGED <<now, plMounted, plState, plHeap, height, isReady, thr, grace, plSrc,
                   plBlobs, plBurst, plApplied, plReady>>
    /\ UNCHANGED otherThanPlayer

\* A mutation of PlayerUnmount: the listener stays registered.
PlayerUnmountKeepsListener ==
    /\ plMounted
    /\ plMounted' = FALSE
    /\ grace' = None
    /\ plCalls' = <<>>
    /\ plLast' = NoEvent
    /\ UNCHANGED <<now, plState, plOnXAPI, plHeap, plListeners, height, isReady, thr,
                   plSrc, plBlobs, plBurst, plApplied, plReady>>
    /\ UNCHANGED otherThanPlayer

\* Unmount: the effects' cleanups remove the listener and clear the grace
\* timer; the throttle's timer is not cancelled.
PlayerUnmount ==
    /\ plMounted
    /\ plMounted' = FALSE
    /\ plListeners' = {}
    /\ grace' = None
    /\ plCalls' = <<>>
    /\ plLast' = NoEvent
    /\ UNCHANGED <<now, plState, plOnXAPI, plHeap, height, isReady, thr, plSrc, plBlobs,
                   plBurst, plApplied, plReady>>
    /\ UNCHANGED otherThanPlayer

\* ----------------------------------------------------------------- Editor

EDITOR_HEIGHT == 100

\* The settings objects the Editor's host passes (Editor.src assigns to none
\* of their fields): valid content, content cut short, empty content.
EdObjects == {1, 2, 3}
EdSettings(o) ==
    IF o = 1
    THEN MkSettings(<<RelA>>, <<>>, AbsBase, <<[key |-> Key1, entry |-> EntryFoo]>>,
                    "tok1", "n1", <<>>)
    ELSE IF o = 2
    THEN MkSettings(<<RelA>>, <<>>, AbsBase,
                    <<[key |-> Key1, entry |-> EntryCut], [key |-> Key2, entry |-> EntryFoo]>>,
                    "tok1", "n2", <<>>)
    ELSE MkSettings(<<RelA>>, <<>>, AbsBase, <<[key |-> Key1, entry |-> EntryNew]>>,
                    "tok1", "n3", <<>>)

EdPropsSet ==
    [id : {"id7", "id8"}, state : EdObjects, allowSameOrigin : BOOLEAN,
     onSubmit : {Null, "onSubmit_a"}, onError : {Null, "onError_a"}]

\* An object without fields: what spreading an absent `data` gives.
EmptyObject == [k \in {} |-> 0]

\* event.data of a message to the Editor: iFrameHeight is 0 and
\* h5pEditorStatus is Undefined when the field is absent.
\* `data` is read only with "success" and `error` only with "error".
EditorMessages ==
    {m \in [iFrameHeight : 0..2, h5pEditorStatus : {Undefined, "success", "error"},
            data : {EmptyObject, [x |-> 1], [x |-> 1, nonce |-> "stale"]},
            error : {"boom"}] :
        /\ m.h5pEditorStatus # "success" => m.data = EmptyObject
        /\ m.h5pEditorStatus # Undefined => m.iFrameHeight # 1}

\* A mutation of EditorContent: the nonce is spread first, data over it.
EditorContentDataLast(data, nonce) ==
    [k \in (DOMAIN data) \cup {"nonce"} |-> IF k \in DOMAIN data THEN data[k] ELSE nonce]

\* { ...status.data, nonce: state.nonce }
EditorContent(data, nonce) ==
    [k \in (DOMAIN data) \cup {"nonce"} |-> IF k = "nonce" THEN nonce ELSE data[k]]

\* The early return of Editor.onMessage, in the closure l.
EditorDrops(l, origin) == ~(origin = HostOrigin) /\ ~l.allowSameOrigin

\* A mutation of EditorStatusCalls: a height in the message suppresses the
\* status branch.
EditorStatusCallsUnlessHeight(l, origin, data) ==
    IF data.iFrameHeight # 0 THEN <<>>
    ELSE (IF data.h5pEditorStatus = "success" /\ l.onSubmit # Null
          THEN <<Call(l.onSubmit, <<EditorContent(data.data, EdSettings(l.state).nonce), l.id>>,
                      origin, edProps.allowSameOrigin)>>
          ELSE <<>>)
         \o
         (IF data.h5pEditorStatus = "error" /\ l.onError # Null
          THEN <<Call(l.onError, <<data.error>>, origin, edProps.allowSameOrigin)>>
          ELSE <<>>)

\* The callbacks the h5pEditorStatus branch of the closure l invokes.
EditorStatusCalls(l, origin, data) ==
    (IF data.h5pEditorStatus = "success" /\ l.onSubmit # Null
     THEN <<Call(l.onSubmit, <<EditorContent(data.data, EdSettings(l.state).nonce), l.id>>,
                 origin, edProps.allowSameOrigin)>>
     ELSE <<>>)
    \o
    (IF data.h5pEditorStatus = "error" /\ l.onError # Null
     THEN <<Call(l.onError, <<data.error>>, origin, edProps.allowSameOrigin)>>
     ELSE <<>>)

\* A mutation of EditorClosure: the closure keeps the first settings.
EditorClosureFirst(p) == [p EXCEPT !.state = 1]

\* The closure the listener effect registers under the props p.
EditorClosure(p) == p

\* A mutation of EditorSynthFails: a failed parse is not noticed.
EditorSynthNeverFails(o) == FALSE

\* Editor.src returns null for the settings object o.
EditorSynthFails(o) == EditorParseFails(EdSettings(o))

\* One run of useMemo src under the props p: the callbacks invoked, the
\* value of src and the object URLs afterwards.
EditorMemo(p, blobs) ==
    IF EditorSynthFails(p.state)
    THEN [calls |-> IF p.onError # Null
                    THEN <<Call(p.onError, <<"SyntaxError">>, HostOrigin, p.allowSameOrigin)>>
                    ELSE <<>>,
          src |-> 0, blobs |-> blobs, created |-> FALSE]
    ELSE [calls |-> <<>>, src |-> Cardinality(blobs) + 1,
          blobs |-> blobs \cup {Cardinality(blobs) + 1}, created |-> TRUE]

\* The state after the first render and its effects.
EdInit ==
    /\ edMounted = TRUE
    /\ edProps \in EdPropsSet
    /\ edListeners = {EditorClosure(edProps)}
    /\ edHeight = EDITOR_HEIGHT
    /\ LET m == EditorMemo(edProps, {})
       IN  /\ edSrc = m.src
           /\ edBlobs = m.blobs
           /\ edCalls = m.calls
           /\ edLast = [kind |-> "synthesis", state |-> edProps.state, created |-> m.created]

\* A window message event delivered to the registered onMessage closure.
EditorOnMessage(origin, data) ==
    /\ edListeners # {}
    /\ \E l \in edListeners :
          IF EditorDrops(l, origin)
          THEN /\ edCalls' = <<>>
               /\ edHeight' = edHeight
               /\ edLast' = [kind |-> "message", origin |-> origin, data |-> data,
                             accepted |-> FALSE]
          ELSE /\ edHeight' = IF data.iFrameHeight # 0 THEN data.iFrameHeight ELSE edHeight
               /\ edCalls' = IF data.h5pEditorStatus # Undefined
                             THEN EditorStatusCalls(l, origin, data) ELSE <<>>
               /\ edLast' = [kind |-> "message", origin |-> origin, data |-> data,
                             accepted |-> TRUE]
    /\ UNCHANGED <<edMounted, edProps, edListeners, edSrc, edBlobs>>
    /\ UNCHANGED otherThanEditor

\* The host passes another settings object: src is synthesized again and the
\* listener effect re-runs.
EditorChangeState(o) ==
    /\ edMounted
    /\ o # edProps.state
    /\ EditorSynthFails(o) \/ Cardinality(edBlobs) < MaxBlobs
    /\ edProps' = [edProps EXCEPT !.state = o]
    /\ LET m == EditorMemo(edProps', edBlobs)
       IN  /\ edSrc' = m.src
           /\ edBlobs' = m.blobs
           /\ edCalls' = m.calls
           /\ edLast' = [kind |-> "synthesis", state |-> o, created |-> m.created]
    /\ edListeners' = {EditorClosure(edProps')}
    /\ UNCHANGED <<edMounted, edHeight>>
    /\ UNCHANGED otherThanEditor

\* The host passes another onSubmit or id: the listener effect re-runs.
EditorChangeOnSubmit(cb) ==
    /\ edMounted
    /\ cb # edProps.onSubmit
    /\ edProps' = [edProps EXCEPT !.onSubmit = cb]
    /\ edListeners' = {EditorClosure(edProps')}
    /\ edCalls' = <<>>
    /\ edLast' = NoEvent
    /\ UNCHANGED <<edMounted, edHeight, edSrc, edBlobs>>
    /\ UNCHANGED otherThanEditor

EditorChangeId(i) ==
    /\ edMounted
    /\ i # edProps.id
    /\ edProps' = [edProps EXCEPT !.id = i]
    /\ edListeners' = {EditorClosure(edProps')}
    /\ edCalls' = <<>>
    /\ edLast' = NoEvent
    /\ UNCHANGED <<edMounted, edHeight, edSrc, edBlobs>>
    /\ UNCHANGED otherThanEditor

\* The host passes another allowSameOrigin or onError: neither is a
\* dependency of the listener effect, which does not re-run.
EditorChangeAllowSameOrigin(b) ==
    /\ edMounted
    /\ b # edProps.allowSameOrigin
    /\ edProps' = [edProps EXCEPT !.allowSameOrigin = b]
    /\ edCalls' = <<>>
    /\ edLast' = NoEvent
    /\ UNCHANGED <<edMounted, edListeners, edHeight, edSrc, edBlobs>>
    /\ UNCHANGED otherThanEditor

EditorChangeOnError(cb) ==
    /\ edMounted
    /\ cb # edProps.onError
    /\ edProps' = [edProps EXCEPT !.onError = cb]
    /\ edCalls' = <<>>
    /\ edLast' = NoEvent
    /\ UNCHANGED <<edMounted, edListeners, edHeight, edSrc, edBlobs>>
    /\ UNCHANGED otherThanEditor

\* Unmount: the effect's cleanup removes the listener.
EditorUnmount ==
    /\ edMounted
    /\ edMounted' = FALSE
    /\ edListeners' = {}
    /\ edCalls' = <<>>
    /\ edLast' = NoEvent
    /\ UNCHANGED <<edProps, edHeight, edSrc, edBlobs>>
    /\ UNCHANGED otherThanEditor

\* ----------------------------------------------------- the editor's guest

MaxUrls == 2

AjaxPath == "/ajax/"
NoPush == "<no push>"
NoToken == "<no token>"

GuestSettings ==
    {MkSettings(<<RelA>>, <<>>, AbsBase, <<[key |-> Key1, entry |-> EntryFoo]>>,
                tok, "n1", <<>>) : tok \in {"tok1", Null}}

GuestMessages == [type : {"TOKEN_CHANGED", "OTHER"}, token : {"tok2", "tok3", "", Null, Undefined}]

\* The guest is loaded: `let token = "${state.token}"`.
GuInit ==
    /\ guDoc \in {EditorDoc(s, lang) : s \in GuestSettings, lang \in {"vi", ""}}
    /\ guToken = guDoc.token
    /\ guPushed = NoPush
    /\ guUrls = <<>>

\* A mutation of GuestTokenAfter: the message is ignored.
GuestTokenKept(token, data) == token

\* The guest's onMessage: token = e.data?.token ?? null on TOKEN_CHANGED.
GuestTokenAfter(token, data) ==
    IF data.type = "TOKEN_CHANGED"
    THEN IF data.token = Null \/ data.token = Undefined THEN Null ELSE data.token
    ELSE token

GuestOnMessage(data) ==
    /\ guToken' = GuestTokenAfter(guToken, data)
    /\ guPushed' = IF data.type = "TOKEN_CHANGED" THEN data.token ELSE guPushed
    /\ UNCHANGED <<guDoc, guUrls>>
    /\ UNCHANGED otherThanGuest

HasQuery(url) == \E i \in 1..Len(url) : url[i] \in {"?", "?_token="}

RECURSIVE AddParameters(_, _)
AddParameters(url, parameters) ==
    IF parameters = <<>> THEN url
    ELSE AddParameters(
            url \o <<IF HasQuery(url) THEN "&" ELSE "?", Head(parameters)[1], "=",
                     Head(parameters)[2]>>,
            Tail(parameters))

\* ns.getAjaxUrl(action, parameters): the text is kept as the sequence of
\* the pieces the function concatenates.
getAjaxUrl(token, doc, action, parameters) ==
    AddParameters(
        <<AjaxPath, action>>
        \o (IF action = "files" THEN <<"/", doc.nonce>> ELSE <<>>)
        \o (IF Truthy(token) THEN <<"?_token=", token>> ELSE <<>>)
        \o (IF doc.lang # "" THEN <<"&lang=", doc.lang>> ELSE <<>>),
        parameters)

GuestGetAjaxUrl(action, parameters) ==
    /\ Len(guUrls) < MaxUrls
    /\ guUrls' = Append(guUrls, [url |-> getAjaxUrl(guToken, guDoc, action, parameters),
                                 pushed |-> guPushed])
    /\ UNCHANGED <<guDoc, guToken, guPushed>>
    /\ UNCHANGED otherThanGuest

\* ------------------------------------------------ claims about synthesis

\* What one synthesis by the component `who` renders from a settings value.
SynthOf(who, settings, styles) ==
    IF who = "editor"
    THEN IF EditorParseFails(settings) THEN NoDoc ELSE EditorDoc(settings, "vi")
    ELSE PlayerDoc(settings, styles)

\* The resolution the specification gives for a core script URL.
ResolvedScript(settings, s) ==
    IF Includes(s, <<":", "/", "/">>) THEN s
    ELSE IF Includes(settings.baseUrl, <<":", "/", "/">>)
         THEN settings.baseUrl \o <<"/">> \o s
    ELSE s

\* C5: every script URL s of core.scripts appears in the synthesized
\* document's script list as s when s is absolute, as baseUrl + "/" + s when
\* s is relative and baseUrl is absolute, and as s when both are relative.
C5_ScriptUrlsResolved ==
    (Len(synDocs) >= 1 /\ synDocs[1] # NoDoc) =>
        \A i \in 1..Len(synOrig.core.scripts) :
            synDocs[1].scripts[i] = ResolvedScript(synOrig, synOrig.core.scripts[i])

\* C9: two syntheses of the identical settings object (same mode, locale and
\* extra styles) give the same script list, the same style list and the same
\* embedded settings payload.
C9_SynthesisIsPure ==
    \A i, j \in 1..Len(synDocs) :
        (synDocs[i] # NoDoc /\ synDocs[j] # NoDoc) =>
            /\ synDocs[i].scripts = synDocs[j].scripts
            /\ synDocs[i].styles = synDocs[j].styles
            /\ synDocs[i].payload = synDocs[j].payload

\* The settings that agree with synOrig in everything but the entries after
\* the first one of the contents mapping.
SameFirstEntry ==
    {[synOrig EXCEPT !.contents = c] :
        c \in {d \in ContentLists : Len(d) >= 1 /\ d[1] = synOrig.contents[1]}}

AllButPayload(doc) == [f \in (DOMAIN doc) \ {"payload"} |-> doc[f]]

Suffix(s, n) == SubSeq(s, Len(s) - n + 1, Len(s))

\* C10 (as stated): with one or more content entries, the entry at the first
\* key supplies what synthesis uses and no field of any other entry
\* influences the synthesized document.
C10_OnlyFirstEntryInfluencesDocument ==
    (Len(synDocs) >= 1 /\ Len(synOrig.contents) >= 1) =>
        \A other \in SameFirstEntry :
            SynthOf(synWho, other, synStyles) = synDocs[1]

\* C10 (amended): with one or more content entries, the entry at the first
\* key supplies the jsonContent and library (Editor), the scripts, styles
\* and content id (Player) that synthesis uses, and the other entries
\* influence nothing of the document but its embedded settings payload.
C10_FirstEntryConsumed ==
    (Len(synDocs) >= 1 /\ Len(synOrig.contents) >= 1) =>
        LET first == synOrig.contents[1]
            doc   == synDocs[1]
        IN  /\ \A other \in SameFirstEntry :
                   AllButPayload(SynthOf(synWho, other, synStyles)) = AllButPayload(doc)
            /\ (synWho = "editor" /\ doc # NoDoc) =>
                   /\ doc.params = first.entry.jsonContent
                   /\ doc.library = first.entry.library
            /\ synWho = "player" =>
                   /\ Suffix(doc.scripts, Len(first.entry.scripts)) =
                          [i \in 1..Len(first.entry.scripts) |->
                              PlayerAssetUrl(synOrig, first.entry.scripts[i])]
                   /\ Suffix(doc.styles, Len(first.entry.styles)) =
                          [i \in 1..Len(first.entry.styles) |->
                              PlayerAssetUrl(synOrig, first.entry.styles[i])]
                   /\ first.key = Key1 => doc.contentId = 1
                   /\ first.key = Key2 => doc.contentId = 2
                   /\ first.key = KeyPlain => doc.contentId = 0

\* C10 witness: a document was synthesized from a mapping of two entries
\* that differ in every field.
C10_Witness ==
    /\ Len(synDocs) >= 1 /\ synDocs[1] # NoDoc
    /\ Len(synOrig.contents) >= 2
    /\ synOrig.contents[1].entry = EntryFoo
    /\ synOrig.contents[2].entry = EntryBar

\* C18: synthesis leaves the settings object it is given unchanged:
\* core.scripts, core.styles and every other field are afterwards what they
\* were before.
C18_SynthesisLeavesSettingsUnchanged == synSettings = synOrig

\* ------------------------------------------------- claims about the Player

BurstSettled ==
    /\ plBurst.updates = 1
    /\ plApplied.via = "timer"
    /\ plApplied.at >= plBurst.start + ThrottleWait
    /\ plApplied.value = plBurst.last
    /\ height = plBurst.last

C3_ReadyOnceNeverRegresses ==
    /\ <>(isReady \/ ~plMounted)
    /\ [](/\ plReady.flips <= 1
          /\ isReady <=> plReady.flips = 1
          /\ isReady <=> (plReady.heightSeen \/ plReady.graceRan)
          /\ plReady.cause = "height" => plReady.heightSeen
          /\ plReady.cause = "timer" => (plReady.graceRan /\ now >= GraceMs))
    /\ [][isReady => isReady']_vars

\* C3 witness: the Player became ready on a height message and the grace
\* timer ran afterwards.
C3_Witness ==
    /\ plMounted /\ isReady
    /\ plReady.cause = "height" /\ plReady.graceRan

\* C1: no host callback is invoked for a message whose origin is not the
\* host page's origin, with or without a statement field, unless the host
\* has enabled allowSameOrigin.
C1_ForeignOriginNeverDispatched ==
    /\ \A i \in 1..Len(plCalls) : plCalls[i].origin = HostOrigin \/ plCalls[i].relaxed
    /\ \A i \in 1..Len(edCalls) : edCalls[i].origin = HostOrigin \/ edCalls[i].relaxed

\* C14: when the settings of a mounted Player are replaced, isReady is false
\* again.
C14_SettingsChangeResetsReady == [][plState' # plState => ~isReady']_vars

C16_GraceTimerMakesReady == (plMounted /\ ~isReady) ~> (isReady \/ ~plMounted)

\* C16 witness: the Player became ready by the grace timer, no height
\* message having been accepted.
C16_Witness ==
    /\ plMounted /\ isReady
    /\ plReady.cause = "timer" /\ ~plReady.heightSeen /\ now >= GraceMs

\* C20: the Player's guest exists only while isReady is true: no message of
\* the guest is handled while isReady is false, so the guest never causes
\* the change of isReady to true.
C20_GuestNeverCausesReady ==
    /\ ~plReady.byGuest
    /\ (plLast.kind = "message" /\ plLast.fromGuest) => (isReady /\ plReady.flips = 1)

\* C20 witness: the guest of a ready Player posted an accepted height.
C20_Witness ==
    /\ plMounted /\ isReady
    /\ plLast.kind = "message" /\ plLast.fromGuest
    /\ plLast.data.iFrameHeight > DEFAULT_HEIGHT

\* ------------------------------------------------- claims about the Editor

\* What a synthesis that publishes nothing leaves behind.
NothingPublished ==
    /\ ~edLast.created
    /\ edSrc = 0
    /\ edProps.onError # Null => (Len(edCalls) = 1 /\ edCalls[1].cb = edProps.onError)
    /\ edProps.onError = Null => edCalls = <<>>

\* C4 (as stated): a synthesis in the Editor from settings whose consumed
\* jsonContent does not parse as JSON creates no object URL, leaves src null
\* (no iframe is rendered) and invokes the error callback exactly once.
C4_UnparsableContentPublishesNothing ==
    (edLast.kind = "synthesis" /\ ~JSONParses(EditorParams(EdSettings(edLast.state)))) =>
        NothingPublished

\* C4 (amended): a synthesis in the Editor from settings whose consumed
\* jsonContent is not empty and does not parse as JSON creates no object
\* URL, leaves src null (no iframe is rendered) and invokes the error
\* callback, when the host supplies one, exactly once.
C4_MalformedContentPublishesNothing ==
    LET params == EditorParams(EdSettings(edLast.state))
    IN  (edLast.kind = "synthesis" /\ params # <<>> /\ ~JSONParses(params)) =>
            NothingPublished

\* C4 witness: after an address was published, the settings change to ones
\* with content cut short and the error callback has been invoked.
C4_Witness ==
    /\ edLast.kind = "synthesis" /\ edLast.state = 2
    /\ edBlobs # {} /\ edSrc = 0
    /\ Len(edCalls) = 1 /\ edCalls[1].cb = "onError_a"

\* C6: an accepted message with h5pEditorStatus "success" and data d makes
\* the Editor invoke onSubmit exactly once, with the id prop and a content
\* that has every field of d and the settings' nonce as its nonce field (a
\* nonce field of d gives way to it), and onError is not invoked.
C6_SuccessSubmitsMergedContent ==
    (/\ edLast.kind = "message" /\ edLast.accepted
     /\ edLast.data.h5pEditorStatus = "success" /\ edProps.onSubmit # Null) =>
        /\ Len(edCalls) = 1
        /\ edCalls[1].cb = edProps.onSubmit
        /\ Len(edCalls[1].args) = 2
        /\ edCalls[1].args[2] = edProps.id
        /\ LET content == edCalls[1].args[1]
               d       == edLast.data.data
           IN  /\ DOMAIN content = (DOMAIN d) \cup {"nonce"}
               /\ content.nonce = EdSettings(edProps.state).nonce
               /\ \A k \in (DOMAIN d) \ {"nonce"} : content[k] = d[k]

\* C6 witness: data {x: 1} under nonce "n1" was submitted as
\* {x: 1, nonce: "n1"} with the id.
C6_Witness ==
    /\ edLast.kind = "message" /\ edLast.accepted
    /\ edLast.data.h5pEditorStatus = "success" /\ edLast.data.data = [x |-> 1]
    /\ Len(edCalls) = 1
    /\ edCalls[1].args = <<[x |-> 1, nonce |-> "n1"], "id7">>

\* C8: one component instance has at most one object URL that was created
\* and not revoked, however often its settings change.
C8_AtMostOneLiveObjectUrl ==
    /\ Cardinality(edBlobs) <= 1
    /\ Cardinality(plBlobs) <= 1

\* C11: a height message with a value at or below the threshold changes
\* neither the height state nor the ready state, in the Editor and in the
\* Player.
C11_BelowThresholdNeverApplied ==
    [][/\ (edLast'.kind = "message" /\ edLast'.data.iFrameHeight <= DEFAULT_HEIGHT) =>
              edHeight' = edHeight
       /\ (plLast'.kind = "message" /\ plLast'.data.iFrameHeight <= DEFAULT_HEIGHT) =>
              (height' = height /\ isReady' = isReady)]_vars

\* C12: an accepted message with h5pEditorStatus "error" and error value e
\* makes the Editor invoke the onError the host supplies now, once, with
\* e, and nothing else.
C12_ErrorReachesCurrentOnError ==
    (/\ edLast.kind = "message" /\ edLast.accepted
     /\ edLast.data.h5pEditorStatus = "error") =>
        edCalls = IF edProps.onError # Null
                  THEN <<Call(edProps.onError, <<edLast.data.error>>, edLast.origin,
                              edProps.allowSameOrigin)>>
                  ELSE <<>>

\* C19: a message from another origin handled while the host supplies
\* allowSameOrigin = false is dropped: no callback is invoked and no state
\* changes.
C19_CurrentOriginPolicyApplies ==
    (/\ edLast.kind = "message" /\ edLast.origin # HostOrigin
     /\ ~edProps.allowSameOrigin) =>
        (~edLast.accepted /\ edCalls = <<>>)

\* --------------------------------------- claims about both host components

\* The calls of the callback cb among calls.
CallsOf(calls, cb) == {i \in 1..Len(calls) : calls[i].cb = cb}

\* C13: every branch of onMessage that matches an accepted message fires
\* for it, once, whatever other recognised fields the message carries: the
\* Editor sets the height and invokes onSubmit or onError, the Player
\* invokes onXAPI and hands the height to changeHeight and sets isReady.
C13_EveryMatchingBranchFires ==
    /\ (edLast.kind = "message" /\ edLast.accepted) =>
          LET d == edLast.data
              submits == IF d.h5pEditorStatus = "success" /\ edProps.onSubmit # Null
                         THEN 1 ELSE 0
              errors  == IF d.h5pEditorStatus = "error" /\ edProps.onError # Null
                         THEN 1 ELSE 0
          IN  /\ d.iFrameHeight # 0 => edHeight = d.iFrameHeight
              /\ Len(edCalls) = submits + errors
              /\ submits = 1 => Cardinality(CallsOf(edCalls, edProps.onSubmit)) = 1
              /\ errors = 1 => Cardinality(CallsOf(edCalls, edProps.onError)) = 1
    /\ plLast.kind = "message" =>
          LET d == plLast.data
              xapis == IF d.statement # Undefined /\ plOnXAPI # Null THEN 1 ELSE 0
          IN  /\ Len(plCalls) = xapis
              /\ xapis = 1 => (plCalls[1].cb = plOnXAPI /\ plCalls[1].args = <<d>>)
              /\ d.iFrameHeight > DEFAULT_HEIGHT =>
                    (isReady /\ thr.lastArgs = d.iFrameHeight /\ thr.timerId # None)

\* C13 witness: the Editor handled a message with a height and a "success"
\* status, and then the Player one with a statement and a height.
C13_Witness ==
    /\ edLast.kind = "message" /\ edLast.accepted
    /\ edLast.data.iFrameHeight = 2 /\ edLast.data.h5pEditorStatus = "success"
    /\ edHeight = 2 /\ Len(edCalls) = 1
    /\ plLast.kind = "message"
    /\ plLast.data.iFrameHeight = 2 /\ plLast.data.statement # Undefined
    /\ Len(plCalls) = 1 /\ isReady

\* C17: a mounted component has exactly one message listener registered,
\* which closes over the current settings (and, in the Player, the current
\* onXAPI); an unmounted one has none.
C17_OneCurrentListener ==
    /\ edMounted => /\ Cardinality(edListeners) = 1
                    /\ \A l \in edListeners :
                          /\ l.state = edProps.state
                          /\ l.onSubmit = edProps.onSubmit /\ l.id = edProps.id
    /\ ~edMounted => edListeners = {}
    /\ plMounted => /\ Cardinality(plListeners) = 1
                    /\ \A l \in plListeners :
                          l.state = plState /\ l.onXAPI = plOnXAPI
    /\ ~plMounted => plListeners = {}

\* C17 witness: both components have had their settings replaced, and the
\* Player has been unmounted since.
C17_Witness ==
    /\ edMounted /\ edProps.state = 3 /\ Cardinality(edBlobs) = 2
    /\ ~plMounted /\ plState = 2

\* ------------------------------------------------- claims about the guest

\* The token a URL carries: the piece after "?_token=".
TokenCarried(url) ==
    IF \E i \in 1..Len(url) - 1 : url[i] = "?_token="
    THEN url[(CHOOSE i \in 1..Len(url) - 1 : url[i] = "?_token=") + 1]
    ELSE NoToken

\* C7: every URL getAjaxUrl builds after the guest received TOKEN_CHANGED
\* with token t, and before the next TOKEN_CHANGED, carries t as its token
\* (no token when t is null, absent or empty), and the URLs built before are
\* not changed.
C7_UrlsCarryLastPushedToken ==
    /\ [](\A i \in 1..Len(guUrls) :
            guUrls[i].pushed # NoPush =>
                TokenCarried(guUrls[i].url) =
                    (IF guUrls[i].pushed \in {Null, Undefined, ""}
                     THEN NoToken ELSE guUrls[i].pushed))
    /\ [][/\ Len(guUrls') >= Len(guUrls)
          /\ \A i \in 1..Len(guUrls) : guUrls'[i] = guUrls[i]]_vars

\* C7 witness: a URL built before the push carries the settings' token, one
\* built after the push of "tok2" carries "tok2".
C7_Witness ==
    /\ Len(guUrls) = 2
    /\ guUrls[1].pushed = NoPush /\ TokenCarried(guUrls[1].url) = "tok1"
    /\ guUrls[2].pushed = "tok2" /\ TokenCarried(guUrls[2].url) = "tok2"

\* --------------------------------------------------------- specifications

SynIdle ==
    /\ synWho = "editor" /\ synOrig = PlSettings1 /\ synSettings = PlSettings1
    /\ synStyles = <<>> /\ synDocs = <<>>

PlIdle ==
    /\ now = 0 /\ plMounted = FALSE /\ plState = 1 /\ plOnXAPI = Null
    /\ plHeap = [o \in PlObjects |-> PlSettings1] /\ plListeners = {}
    /\ height = DEFAULT_HEIGHT /\ isReady = FALSE /\ thr = ThrottleInit
    /\ grace = None /\ plSrc = 0 /\ plBlobs = {} /\ plCalls = <<>>
    /\ plBurst = NoBurst /\ plApplied = NoApplied /\ plReady = NoReady
    /\ plLast = NoEvent

EdIdle ==
    /\ edMounted = FALSE
    /\ edProps = [id |-> "id7", state |-> 1, allowSameOrigin |-> FALSE,
                  onSubmit |-> Null, onError |-> Null]
    /\ edListeners = {} /\ edHeight = EDITOR_HEIGHT /\ edSrc = 0 /\ edBlobs = {}
    /\ edCalls = <<>> /\ edLast = NoEvent

GuIdle ==
    /\ guDoc = NoDoc /\ guToken = Null /\ guPushed = NoPush /\ guUrls = <<>>

\* Document synthesis alone, on every settings value of SynthSettings.
SynNext == SynthEditor \/ SynthPlayer

SynthInit == SynInit /\ PlIdle /\ EdIdle /\ GuIdle

SpecSynth == SynthInit /\ [][SynNext]_vars

\* One Player instance from its mount on: every message, both timers, the
\* host's prop changes and the unmount, on a clock of 200 ms steps.
CoarseMessages == {d \in PlayerMessages : d.iFrameHeight <= DEFAULT_HEIGHT + 1}

\* What the guest's script posts: the height its ResizeObserver reports, or
\* the data of an xAPI event.
GuestPosts == {d \in CoarseMessages : (d.statement = Undefined) # (d.iFrameHeight = 0)}

PlayerNext ==
    \/ \E o \in Origins, d \in CoarseMessages : PlayerOnMessage(o, d)
    \/ \E d \in GuestPosts : PlayerGuestPosts(d)
    \/ ThrottleTimerFires
    \/ GraceTimerFires
    \/ TickCoarse
    \/ \E o \in PlObjects : PlayerChangeState(o)
    \/ \E cb \in PlCallbacks : PlayerChangeOnXAPI(cb)
    \/ PlayerUnmount

PlayerInit == PlInit /\ SynIdle /\ EdIdle /\ GuIdle

SpecPlayer == PlayerInit /\ [][PlayerNext]_vars

\* The same with time passing and a due grace timer callback being run.
\* The host supplies no onXAPI and every message has the host's origin.
PlayerLiveNext ==
    \/ \E d \in CoarseMessages : PlayerOnMessage(HostOrigin, d)
    \/ \E d \in GuestPosts : PlayerGuestPosts(d)
    \/ ThrottleTimerFires
    \/ GraceTimerFires
    \/ TickCoarse
    \/ \E o \in PlObjects : PlayerChangeState(o)
    \/ PlayerUnmount

PlayerLiveInit == PlInit /\ plOnXAPI = Null /\ SynIdle /\ EdIdle /\ GuIdle

SpecPlayerLive ==
    /\ PlayerLiveInit /\ [][PlayerLiveNext]_vars
    /\ WF_vars(TickCoarse) /\ WF_vars(GraceTimerFires)

\* The Player's throttled height updates on a clock of 50 ms steps: height
\* messages of the host's origin, the throttle's timer and the unmount.
HeightMessages == {d \in PlayerMessages : d.statement = Undefined}

ThrottleNext ==
    \/ \E d \in HeightMessages : PlayerOnMessage(HostOrigin, d)
    \/ ThrottleTimerFires
    \/ TickFine
    \/ PlayerUnmount

ThrottleSpecInit == PlInit /\ plOnXAPI = Null /\ SynIdle /\ EdIdle /\ GuIdle

SpecThrottle == ThrottleSpecInit /\ [][ThrottleNext]_vars

\* One Editor instance from its mount on.
EditorNext ==
    \/ \E o \in Origins, d \in EditorMessages : EditorOnMessage(o, d)
    \/ \E o \in EdObjects : EditorChangeState(o)
    \/ \E cb \in {Null, "onSubmit_a"} : EditorChangeOnSubmit(cb)
    \/ \E i \in {"id7", "id8"} : EditorChangeId(i)
    \/ \E b \in BOOLEAN : EditorChangeAllowSameOrigin(b)
    \/ \E cb \in {Null, "onError_a"} : EditorChangeOnError(cb)
    \/ EditorUnmount

EditorInit == EdInit /\ SynIdle /\ PlIdle /\ GuIdle

SpecEditor == EditorInit /\ [][EditorNext]_vars

\* The messages of one Editor and one Player, both mounted and with the
\* props of their mount.
RoutingNext ==
    \/ \E o \in Origins, d \in EditorMessages : EditorOnMessage(o, d)
    \/ \E o \in Origins, d \in CoarseMessages : PlayerOnMessage(o, d)

RoutingInit ==
    /\ EdInit /\ edProps.state = 1 /\ edProps.id = "id7"
    /\ PlInit /\ SynIdle /\ GuIdle

SpecRouting == RoutingInit /\ [][RoutingNext]_vars

\* The mounts, prop changes and unmounts of one Editor and one Player.
LifecycleNext ==
    \/ \E o \in EdObjects : EditorChangeState(o)
    \/ \E cb \in {Null, "onSubmit_a"} : EditorChangeOnSubmit(cb)
    \/ \E i \in {"id7", "id8"} : EditorChangeId(i)
    \/ \E b \in BOOLEAN : EditorChangeAllowSameOrigin(b)
    \/ \E cb \in {Null, "onError_a"} : EditorChangeOnError(cb)
    \/ EditorUnmount
    \/ \E o \in PlObjects : PlayerChangeState(o)
    \/ \E cb \in PlCallbacks : PlayerChangeOnXAPI(cb)
    \/ PlayerUnmount

LifecycleInit == EdInit /\ PlInit /\ SynIdle /\ GuIdle

SpecLifecycle == LifecycleInit /\ [][LifecycleNext]_vars

\* One guest of the Editor, from the load of its document on.
GuestParameters == {<<>>, <<<<"x", "1">>>>}

GuestNext ==
    \/ \E d \in GuestMessages : GuestOnMessage(d)
    \/ \E a \in {"files", "libraries"}, ps \in GuestParameters : GuestGetAjaxUrl(a, ps)

GuestInit == GuInit /\ SynIdle /\ PlIdle /\ EdIdle

SpecGuest == GuestInit /\ [][GuestNext]_vars

====
